---- MODULE Spec2Model ----
(***************************************************************************)
(* LTI launch validation of ltiauthenticator (src/ltiauthenticator/        *)
(* __init__.py): LTILaunchValidator.validate_launch_request, the nonce     *)
(* cache and PROCESS_START_TIME it keeps class-wide,                       *)
(* LTIAuthenticator.authenticate and LTIAuthenticateHandler.post.          *)
(*                                                                         *)
(* Text is modelled as a sequence of chunks (TLA+ strings): a key such as  *)
(* oauth_nonce is <<"oauth_", "nonce">>, an address is                     *)
(* <<"alice", "@", "example.edu">>, a percent-escape such as %61 is one    *)
(* chunk, a decimal numeral is <<"0", ".", "5">>.                          *)
(***************************************************************************)
EXTENDS Integers, Sequences, FiniteSets, TLC

VARIABLES
    now,        \* int(time.time()): the clock, in whole seconds
    epoch,      \* LTILaunchValidator.PROCESS_START_TIME
    nonces,     \* LTILaunchValidator.nonces: integer timestamp -> set of nonces
    request,    \* the request the last handler call was given (NoRequest: none yet)
    outcome,    \* how validate_launch_request ended for it
    identity,   \* what authenticate returned for it
    response,   \* what the handler sent for it
    restarted,  \* history: the process was restarted since that call
    pc,         \* per thread: where its validate_launch_request call stands
    treq,       \* per thread: the request of that call
    tout        \* per thread: how the call ended

vars == <<now, epoch, nonces, request, outcome, identity, response, restarted,
          pc, treq, tout>>

handlerVars == <<request, outcome, identity, response>>
threadVars == <<pc, treq, tout>>

----------------------------------------------------------------------------
(* Program constants and bounds *)

\* the clock skew the timestamp check allows, in seconds
Skew == 30

\* the nonce cache holds at most this many entries in a checked run
MaxCache == 2

\* the clock readings of a checked run: around the start and around Skew later
ClockReadings == {0, 1, Skew + 1}

\* the largest numeral float() is asked to read
MaxStamp == Skew + 1

----------------------------------------------------------------------------
(* Parameter names *)

CK == <<"oauth_", "consumer_key">>
SIG == <<"oauth_", "signature">>
TS == <<"oauth_", "timestamp">>
NONCE == <<"oauth_", "nonce">>
EMAIL == <<"lis_person_contact_email_primary">>
NEXT == <<"custom_next">>

Keys == {CK, SIG, TS, NONCE, EMAIL, NEXT}

\* str.startswith, on chunked text
StartsWith(k, p) == Len(k) >= 1 /\ k[1] = p

----------------------------------------------------------------------------
(* Outcomes of validate_launch_request: True, the reason of an HTTPError(401), or
   the exception that escapes it *)

OK == "ok"
ConsumerKeyMissing == "oauth_consumer_key missing"
ConsumerKeyUnknown == "oauth_consumer_key not known"
SignatureMissing == "oauth_signature missing"
TimestampMissing == "oauth_timestamp missing"
TimestampTooOld == "oauth_timestamp too old"
NonceMissing == "oauth_nonce missing"
NonceUsed == "oauth_nonce + oauth_timestamp already used"
SignatureInvalid == "Invalid oauth_signature"
TypeError == "TypeError"
ValueError == "ValueError"
None == "None"

\* the 401 reasons of a missing field
MissingField == {ConsumerKeyMissing, SignatureMissing, TimestampMissing, NonceMissing}

\* the five rejection kinds, each raised as web.HTTPError(401, reason)
Rejections == MissingField \cup {ConsumerKeyUnknown, TimestampTooOld, NonceUsed, SignatureInvalid}

----------------------------------------------------------------------------
(* Text helpers *)

Min(S) == CHOOSE x \in S : \A y \in S : x <= y
Max(S) == CHOOSE x \in S : \A y \in S : x >= y

\* text.split(sep)[0]: the chunks before the first sep
SplitFirst(text, sep) ==
    LET at == {i \in 1..Len(text) : text[i] = sep}
    IN  IF at = {} THEN text ELSE SubSeq(text, 1, Min(at) - 1)

\* str.strip(): leading and trailing blanks removed
Strip(text) ==
    LET solid == {i \in 1..Len(text) : text[i] # " "}
    IN  IF solid = {} THEN <<>> ELSE SubSeq(text, Min(solid), Max(solid))

\* the percent-escapes of the modelled texts, and what each decodes to
PercentDecoded == ("%61" :> "a")

\* oauthlib utils.unescape: percent-decoding
Unescape(text) ==
    [i \in 1..Len(text) |->
        IF text[i] \in DOMAIN PercentDecoded THEN PercentDecoded[text[i]] ELSE text[i]]

\* oauthlib utils.escape: percent-encoding; the % of an escape becomes %25
Escape(text) ==
    [i \in 1..Len(text) |->
        IF text[i] \in DOMAIN PercentDecoded THEN "%25" \o text[i] ELSE text[i]]

\* a decimal numeral of the modelled range
Numerals == [n \in 0..MaxStamp |-> ToString(n)]
IsNumeral(c) == \E n \in 0..MaxStamp : Numerals[n] = c
NumeralValue(c) == CHOOSE n \in 0..MaxStamp : Numerals[n] = c

\* float(text) succeeds: "31", or "0.5"
FloatReadable(text) ==
    \/ Len(text) = 1 /\ IsNumeral(text[1])
    \/ Len(text) = 3 /\ IsNumeral(text[1]) /\ text[2] = "." /\ IsNumeral(text[3])

\* int(float(text)) of a readable, non-negative text: the fraction is cut off
IntOfFloat(text) == NumeralValue(text[1])

----------------------------------------------------------------------------
(* The consumer registry: LTIAuthenticator.consumers, handed to the validator *)

Consumers == (<<"key1">> :> <<"secret1">>) @@ (<<"key2">> :> <<"secret2">>)

----------------------------------------------------------------------------
(* Arguments.  A request's body_arguments map every key to the sequence of its
   values, <<>> for a key that is not sent.  args[k] is the single value when there
   is one and the list of values otherwise; the model keeps the sequence in both
   cases and IsList tells them apart (tornado gives no empty list). *)

Args(body) == [k \in {k \in DOMAIN body : body[k] # <<>>} |-> body[k]]

IsList(values) == Len(values) # 1

\* the last value of a body argument, stripped: tornado's get_body_argument
GetBodyArgument(body, name) == Strip(body[name][Len(body[name])])

----------------------------------------------------------------------------
(* The signature *)

\* protocol + "://" + host + uri, the protocol being the first x-forwarded-proto hop
\* when that header is sent
LaunchUrl(r) ==
    LET protocol == IF r.forwarded # <<>>
                    THEN Strip(SplitFirst(r.forwarded, ","))
                    ELSE <<r.protocol>>
    IN  [scheme |-> protocol, host |-> r.host, path |-> r.path, query |-> r.query]

\* signature.base_string_uri: the URL without its query
BaseStringUri(url) == [scheme |-> url.scheme, host |-> url.host, path |-> url.path]

\* the multiset of the values of a list
BagOf(values) ==
    [v \in {values[i] : i \in DOMAIN values} |->
        Cardinality({i \in DOMAIN values : values[i] = v})]

\* lines 76-81 and signature.collect_parameters: one (key, value) pair per value,
\* kept here as key -> values; the values of oauth_ keys are unescaped and
\* oauth_signature is left out (the modelled requests carry no Authorization header)
CollectParameters(args) ==
    [k \in DOMAIN args \ {SIG} |->
        IF StartsWith(k, "oauth_")
        THEN [i \in DOMAIN args[k] |-> Unescape(args[k][i])]
        ELSE args[k]]

\* signature.normalize_parameters: keys and values escaped, the pairs sorted by key
\* and value and joined.  The sorted list is determined by the multiset of values
\* of each key, which is what is kept.
NormalizeParameters(params) ==
    [e \in {Escape(k) : k \in DOMAIN params} |->
        LET k == CHOOSE k \in DOMAIN params : Escape(k) = e
        IN  BagOf([i \in DOMAIN params[k] |-> Escape(params[k][i])])]

\* signature.signature_base_string('POST', uri, params)
BaseString(url, args) ==
    [method |-> "POST", uri |-> BaseStringUri(url),
     params |-> NormalizeParameters(CollectParameters(args))]

\* signature.sign_hmac_sha1(base_string, secret, None): HMAC-SHA1 keyed by
\* escape(secret) & "&", taken as collision-free
SignHmacSha1(base, secret) == [base |-> base, key |-> Escape(secret) \o <<"&">>]

\* signature.safe_string_equals(sign, args['oauth_signature']): a list of several
\* values has another length than the signature and is unequal
SafeStringEquals(sign, supplied) == ~IsList(supplied) /\ sign = supplied[1]

----------------------------------------------------------------------------
(* LTILaunchValidator.validate_launch_request *)

\* line 59
OauthTimestamp(args) == IntOfFloat(args[TS][1])

\* a window one second short: a timestamp Skew seconds old is refused
TooOldAtSkew(ts, t, start) == t - ts >= Skew \/ ts < start

\* lines 60-63: the timestamp is refused
TooOld(ts, t, start) == t - ts > Skew \/ ts < start

\* lines 45-66: the checks before the nonce cache is read.  "pass", or how the
\* call ends
FieldChecks(consumers, args, t, start) ==
    IF CK \notin DOMAIN args THEN ConsumerKeyMissing
    ELSE IF IsList(args[CK]) THEN TypeError          \* a list is unhashable: `in` raises
    ELSE IF args[CK][1] \notin DOMAIN consumers THEN ConsumerKeyUnknown
    ELSE IF SIG \notin DOMAIN args THEN SignatureMissing
    ELSE IF TS \notin DOMAIN args THEN TimestampMissing
    ELSE IF IsList(args[TS]) THEN TypeError          \* float() of a list
    ELSE IF ~FloatReadable(args[TS][1]) THEN ValueError
    ELSE IF TooOld(OauthTimestamp(args), t, start) THEN TimestampTooOld
    ELSE IF NONCE \notin DOMAIN args THEN NonceMissing
    ELSE "pass"

\* a membership test by the nonce alone, under whatever timestamp it was recorded
NonceCheckAnyTimestamp(cache, ts, nonce) ==
    IF IsList(nonce) THEN TypeError
    ELSE IF \E t \in DOMAIN cache : nonce[1] \in cache[t] THEN NonceUsed
    ELSE "pass"

\* a membership test that finds nothing: the nonce looked up under the wrong key
NonceCheckFindsNothing(cache, ts, nonce) == "pass"

\* lines 68-72: the membership test.  A list-valued nonce is hashed, and raises,
\* only when the timestamp has an entry
NonceCheck(cache, ts, nonce) ==
    IF ts \notin DOMAIN cache THEN "pass"
    ELSE IF IsList(nonce) THEN TypeError
    ELSE IF nonce[1] \in cache[ts] THEN NonceUsed
    ELSE "pass"

\* nonces.setdefault(ts, set())
SetDefault(cache, ts) == IF ts \in DOMAIN cache THEN cache ELSE cache @@ (ts :> {})

\* a cache that keeps the newest pair only
InsertEvicts(cache, ts, nonce) == IF IsList(nonce) THEN (ts :> {}) ELSE (ts :> {nonce[1]})

\* line 73: the cache after it.  set.add of a list raises after setdefault has
\* made the entry
Insert(cache, ts, nonce) ==
    IF IsList(nonce) THEN SetDefault(cache, ts)
    ELSE [SetDefault(cache, ts) EXCEPT ![ts] = @ \cup {nonce[1]}]

\* line 73: how it ends
InsertEnds(nonce) == IF IsList(nonce) THEN TypeError ELSE "pass"

\* lines 76-99
VerifySignature(consumers, launch_url, args) ==
    LET sign == SignHmacSha1(BaseString(launch_url, args), consumers[args[CK][1]])
    IN  IF SafeStringEquals(sign, args[SIG]) THEN OK ELSE SignatureInvalid

\* a validator that records the pair of a request it refuses for its timestamp
ValidateRecordsStale(consumers, launch_url, args, cache, t, start) ==
    LET fields == FieldChecks(consumers, args, t, start)
        ts == OauthTimestamp(args)
        seen == NonceCheck(cache, ts, args[NONCE])
    IN  IF fields = TimestampTooOld /\ NONCE \in DOMAIN args /\ ~IsList(args[NONCE])
        THEN [outcome |-> fields, nonces |-> Insert(cache, ts, args[NONCE])]
        ELSE IF fields # "pass" THEN [outcome |-> fields, nonces |-> cache]
        ELSE IF seen # "pass" THEN [outcome |-> seen, nonces |-> cache]
        ELSE IF InsertEnds(args[NONCE]) # "pass"
             THEN [outcome |-> InsertEnds(args[NONCE]), nonces |-> Insert(cache, ts, args[NONCE])]
        ELSE [outcome |-> VerifySignature(consumers, launch_url, args),
              nonces |-> Insert(cache, ts, args[NONCE])]

\* a validator that records the pair only after the signature matched
ValidateThenRecord(consumers, launch_url, args, cache, t, start) ==
    LET fields == FieldChecks(consumers, args, t, start)
        ts == OauthTimestamp(args)
        seen == NonceCheck(cache, ts, args[NONCE])
    IN  IF fields # "pass" THEN [outcome |-> fields, nonces |-> cache]
        ELSE IF seen # "pass" THEN [outcome |-> seen, nonces |-> cache]
        ELSE IF InsertEnds(args[NONCE]) # "pass"
             THEN [outcome |-> InsertEnds(args[NONCE]), nonces |-> cache]
        ELSE IF VerifySignature(consumers, launch_url, args) # OK
             THEN [outcome |-> SignatureInvalid, nonces |-> cache]
        ELSE [outcome |-> OK, nonces |-> Insert(cache, ts, args[NONCE])]

\* the whole call: how it ends, and the cache it leaves
ValidateLaunchRequest(consumers, launch_url, args, cache, t, start) ==
    LET fields == FieldChecks(consumers, args, t, start)
        ts == OauthTimestamp(args)
        seen == NonceCheck(cache, ts, args[NONCE])
    IN  IF fields # "pass" THEN [outcome |-> fields, nonces |-> cache]
        ELSE IF seen # "pass" THEN [outcome |-> seen, nonces |-> cache]
        ELSE IF InsertEnds(args[NONCE]) # "pass"
             THEN [outcome |-> InsertEnds(args[NONCE]), nonces |-> Insert(cache, ts, args[NONCE])]
        ELSE [outcome |-> VerifySignature(consumers, launch_url, args),
              nonces |-> Insert(cache, ts, args[NONCE])]

----------------------------------------------------------------------------
(* LTIAuthenticator.authenticate *)

NoIdentity == <<>>

\* the login name without the split at '@'
UserNameWholeAddress(body) == GetBodyArgument(body, EMAIL)

\* lines 153-155
UserName(body) == SplitFirst(GetBodyArgument(body, EMAIL), "@")

\* an auth_state that keeps every argument
AuthStateKeepsAll(args) == args

\* line 164
AuthState(args) == [k \in {k \in DOMAIN args : ~StartsWith(k, "oauth_")} |-> args[k]]

\* what authenticate raises for a request validation ended with `ended`: None when
\* it returns
AuthenticateRaises(body, ended) ==
    IF ended \in Rejections THEN "HTTPError 401"
    ELSE IF ended # OK THEN ended
    ELSE IF body[EMAIL] = <<>> THEN "MissingArgumentError"   \* get_body_argument, no default
    ELSE None

\* lines 162-165: the returned dict
AuthenticateReturns(body, ended) ==
    IF AuthenticateRaises(body, ended) # None THEN NoIdentity
    ELSE <<[name |-> UserName(body), auth_state |-> AuthState(Args(body))]>>

----------------------------------------------------------------------------
(* LTIAuthenticateHandler.post *)

\* self.get_next_url()
DefaultNextUrl == <<"/hub/home">>

\* a handler that ignores custom_next
RedirectTargetIsDefault(body) == DefaultNextUrl

\* lines 204-208
RedirectTarget(body) ==
    IF body[NEXT] = <<>> THEN DefaultNextUrl ELSE GetBodyArgument(body, NEXT)

\* a handler that redirects whatever login_user raised
RespondRedirectsAnyway(r, ended) ==
    [status |-> 302, detail |-> RedirectTarget(r.body), login |-> NoIdentity]

\* the response of post.  login_user hands an exception of authenticate on: an
\* HTTPError is sent with its status and reason, any other exception as a 500.
\* When authenticate returns, login_user logs the user in if the hub allows the
\* name, and post redirects.
Respond(r, ended) ==
    LET raised == AuthenticateRaises(r.body, ended)
    IN  IF raised = "HTTPError 401"
        THEN [status |-> 401, detail |-> <<ended>>, login |-> NoIdentity]
        ELSE IF raised = "MissingArgumentError"
        THEN [status |-> 400, detail |-> <<"Missing argument">>, login |-> NoIdentity]
        ELSE IF raised # None
        THEN [status |-> 500, detail |-> <<raised>>, login |-> NoIdentity]
        ELSE [status |-> 302, detail |-> RedirectTarget(r.body),
              login |-> IF r.allowed THEN <<UserName(r.body)>> ELSE NoIdentity]

----------------------------------------------------------------------------
(* The requests of a checked run *)

NoRequest == [body |-> <<>>, protocol |-> "", forwarded |-> <<>>, host |-> "",
              path |-> "", query |-> "", allowed |-> FALSE]

\* a POST to /hub/lti/launch behind a proxy that sets x-forwarded-proto
Request(body, allowed) ==
    [body |-> body, protocol |-> "http", forwarded |-> <<"https", ",", " ", "http">>,
     host |-> "hub.example.edu", path |-> "/hub/lti/launch", query |-> "",
     allowed |-> allowed]

Body(ck, sig, ts, nonce, email, next) ==
    (CK :> ck) @@ (SIG :> sig) @@ (TS :> ts) @@ (NONCE :> nonce) @@
    (EMAIL :> email) @@ (NEXT :> next)

\* the signature a consumer holding `secret` computes over the request
SignatureOver(r, secret) == SignHmacSha1(BaseString(LaunchUrl(r), Args(r.body)), secret)

\* the request with that signature as its oauth_signature
Signed(r, secret) == [r EXCEPT !.body[SIG] = <<SignatureOver(r, secret)>>]

\* a signature of nothing the validator computes
Forged == [base |-> [method |-> "GET", uri |-> <<>>, params |-> <<>>], key |-> <<"&">>]

Key1 == <<"key1">>
Key2 == <<"key2">>
NonceA == <<"a">>
NonceB == <<"b">>
NonceEscaped == <<"%61">>          \* another spelling of NonceA
Alice == <<"alice", "@", "example.edu">>
Mallory == <<"mallory", "@", "example.edu">>

Numeral(n) == <<ToString(n)>>
TimestampTexts == {Numeral(n) : n \in ClockReadings} \cup {<<"0", ".", "5">>}

\* a launch as a registered consumer sends it
Launch(key, ts, nonce, email, next, allowed) ==
    Signed(Request(Body(<<key>>, <<>>, <<ts>>, <<nonce>>, email, next), allowed),
           Consumers[key])

\* launches of both consumers, and the same with a forged signature
ReplayRequests ==
    LET sent == {Launch(k, ts, n, <<Alice>>, <<>>, TRUE) :
                    k \in {Key1, Key2}, ts \in TimestampTexts, n \in {NonceA, NonceB}}
    IN  sent \cup {[r EXCEPT !.body[SIG] = <<Forged>>] : r \in {r \in sent : r.body[CK] = <<Key1>>}}

\* a launch changed after it was signed, or signed with another consumer's secret
TamperedRequests ==
    LET sent == Launch(Key1, Numeral(0), NonceA, <<Alice>>, <<>>, TRUE)
    IN  {[sent EXCEPT !.body[NONCE] = <<NonceEscaped>>],
         [sent EXCEPT !.body[TS] = <<<<"0", ".", "5">>>>],
         [sent EXCEPT !.body[EMAIL] = <<Mallory>>],
         [sent EXCEPT !.body[SIG] = <<SignatureOver(sent, Consumers[Key2])>>]}

\* launches that differ in the address, the redirect target and the hub's verdict
Emails == {<<>>, <<Alice>>, <<<<"bob">>>>, <<<<"@", "example.edu">>>>,
           <<<<"a", "@", "b", "@", "c">>>>, <<Mallory, Alice>>, <<<<" ", "alice", "@", "x", " ">>>>}

IdentityRequests ==
    {Launch(Key1, Numeral(0), NonceA, e, next, allowed) :
        e \in Emails, next \in {<<>>, <<<<"/user/alice">>>>}, allowed \in BOOLEAN}

\* further launch parameters: another oauth_ parameter, an LTI parameter, and a
\* custom parameter that has oauth_ in its name but not at its start
OauthVersion == <<"oauth_", "version">>
ContextId == <<"context_id">>
CustomOauth == <<"custom_", "oauth_", "token">>

\* what a launch sends under them: nothing, one value, or a repeated key
Extras ==
    {(OauthVersion :> v) @@ (ContextId :> c) @@ (CustomOauth :> t) :
        v \in {<<>>, <<<<"1.0">>>>},
        c \in {<<<<"course1">>>>, <<<<"course1">>, <<"course2">>>>},
        t \in {<<>>, <<<<"t0ken">>>>}}

\* launches that carry them, as the consumer signs them
StateRequests ==
    {Signed(Request(Body(<<Key1>>, <<>>, <<Numeral(0)>>, <<NonceA>>, <<Alice>>, next) @@ x, TRUE),
            Consumers[Key1]) :
        x \in Extras, next \in {<<>>, <<<<"/user/alice">>>>}}

\* requests with each of the four oauth fields absent, single or repeated, the
\* consumer key also unregistered, the timestamp also not a number; the signature,
\* where one is sent, is computed over the request as it is sent
Evil == <<"evil">>
FieldRequests ==
    {LET r == Request(Body(ck, <<>>, ts, nonce, <<Alice>>, <<>>), TRUE)
         sign == SignatureOver(r, Consumers[Key1])
     IN  [r EXCEPT !.body[SIG] = IF sig = 0 THEN <<>>
                                 ELSE IF sig = 1 THEN <<sign>> ELSE <<sign, Forged>>] :
        ck \in {<<>>, <<Key1>>, <<Evil>>, <<Key1, Key2>>},
        sig \in 0..2,
        ts \in {<<>>, <<Numeral(0)>>, <<<<"soon">>>>, <<Numeral(0), Numeral(1)>>},
        nonce \in {<<>>, <<NonceA>>, <<NonceA, NonceB>>}}

\* two callers' requests: the same launch, another one, and a forgery of the first
ThreadRequests ==
    LET sent == Launch(Key1, Numeral(0), NonceA, <<Alice>>, <<>>, TRUE)
    IN  {sent, Launch(Key1, Numeral(0), NonceB, <<Alice>>, <<>>, TRUE),
         [sent EXCEPT !.body[SIG] = <<Forged>>]}

Requests == ReplayRequests \cup TamperedRequests

----------------------------------------------------------------------------
(* Actions *)

\* the (timestamp, nonce) pairs of a cache, and its entries
Pairs(cache) == UNION {{<<ts, n>> : n \in cache[ts]} : ts \in DOMAIN cache}
CacheSize(cache) == Cardinality(Pairs(cache)) + Cardinality({ts \in DOMAIN cache : cache[ts] = {}})

EmptyCache == <<>>

\* the callers of the threaded specification
Threads == 1..2

Init ==
    /\ now = 0
    /\ epoch = 0
    /\ nonces = EmptyCache
    /\ request = NoRequest
    /\ outcome = None
    /\ identity = NoIdentity
    /\ response = [status |-> 0, detail |-> <<>>, login |-> NoIdentity]
    /\ restarted = FALSE
    /\ pc = [t \in Threads |-> "idle"]
    /\ treq = [t \in Threads |-> NoRequest]
    /\ tout = [t \in Threads |-> None]

\* LTILaunchValidator(consumers): an instance holds its consumer registry and
\* nothing else
LTILaunchValidator(consumers) == [consumers |-> consumers]

\* a cache that every instance has for itself, empty when the instance is made
InstanceNonces(validator, shared) == EmptyCache

\* the cache a validator reads and writes: LTILaunchValidator.nonces, the attribute
\* of the class, whichever the instance
ClassNonces(validator, shared) == shared

\* LTIAuthenticateHandler.post on request r: login_user, authenticate,
\* validate_launch_request, the redirect.  Nothing in authenticate yields, so the
\* event loop runs it through.
Post(r) ==
    LET validator == LTILaunchValidator(Consumers)
        v == ValidateLaunchRequest(validator.consumers, LaunchUrl(r), Args(r.body),
                                   ClassNonces(validator, nonces), now, epoch)
    IN  /\ CacheSize(v.nonces) <= MaxCache
        /\ nonces' = v.nonces
        /\ request' = r
        /\ outcome' = v.outcome
        /\ identity' = AuthenticateReturns(r.body, v.outcome)
        /\ response' = Respond(r, v.outcome)
        /\ restarted' = FALSE
        /\ UNCHANGED <<now, epoch, threadVars>>

\* time passes
Tick ==
    /\ \E t \in ClockReadings : t > now /\ now' = t
    /\ UNCHANGED <<epoch, nonces, handlerVars, restarted, threadVars>>

\* the process is restarted: the class body runs again
Restart ==
    /\ epoch' = now
    /\ nonces' = EmptyCache
    /\ restarted' = TRUE
    /\ UNCHANGED <<now, handlerVars, threadVars>>

Next ==
    \/ \E r \in Requests : Post(r)
    \/ Tick
    \/ Restart

\* launches, replays and tampered launches, over time and restarts
Spec == Init /\ [][Next]_vars

NextFields ==
    \/ \E r \in FieldRequests : Post(r)
    \/ Tick

\* requests with absent, repeated and unreadable fields, within one process
SpecFields == Init /\ [][NextFields]_vars

NextAuth ==
    \/ \E r \in IdentityRequests \cup StateRequests : Post(r)
    \/ Tick
    \/ Restart

\* launches that differ in what authenticate and post read
SpecAuth == Init /\ [][NextAuth]_vars

\* a validator instance other than those authenticate makes: it is made once, for
\* the second consumer alone, and called again and again
StandingValidator == LTILaunchValidator((Key2 :> Consumers[Key2]))

\* launches of both consumers that carry the same (timestamp, nonce) pair, a
\* launch with another pair, and a forgery
InstanceRequests ==
    LET sent == {Launch(k, Numeral(0), n, <<Alice>>, <<>>, TRUE) :
                    k \in {Key1, Key2}, n \in {NonceA, NonceB}}
    IN  sent \cup {[r EXCEPT !.body[SIG] = <<Forged>>] : r \in sent}

\* validate_launch_request called on validator instance `validator`, not through
\* the handler: no response is sent
ValidateWith(validator, r) ==
    LET v == ValidateLaunchRequest(validator.consumers, LaunchUrl(r), Args(r.body),
                                   ClassNonces(validator, nonces), now, epoch)
    IN  /\ CacheSize(v.nonces) <= MaxCache
        /\ nonces' = v.nonces
        /\ request' = r
        /\ outcome' = v.outcome
        /\ restarted' = FALSE
        /\ UNCHANGED <<now, epoch, identity, response, threadVars>>

NextInstances ==
    \/ \E r \in InstanceRequests : Post(r)
    \/ \E r \in InstanceRequests : ValidateWith(StandingValidator, r)
    \/ Tick

\* calls through the instances authenticate makes and through a standing
\* instance, within one process
SpecInstances == Init /\ [][NextInstances]_vars

----------------------------------------------------------------------------
(* validate_launch_request called from two threads.  The interpreter may switch
   threads between any two statements: the checks up to the membership test of
   lines 68-72, the insertion of line 73 and the signature check are steps of
   their own. *)


Call(t, r) ==
    /\ pc[t] = "idle"
    /\ pc' = [pc EXCEPT ![t] = "checks"]
    /\ treq' = [treq EXCEPT ![t] = r]
    /\ tout' = [tout EXCEPT ![t] = None]
    /\ UNCHANGED <<now, epoch, nonces, handlerVars, restarted>>

\* lines 45-72
Checks(t) ==
    /\ pc[t] = "checks"
    /\ LET args == Args(treq[t].body)
           fields == FieldChecks(Consumers, args, now, epoch)
           seen == NonceCheck(nonces, OauthTimestamp(args), args[NONCE])
           ended == IF fields # "pass" THEN fields ELSE seen
       IN  /\ pc' = [pc EXCEPT ![t] = IF ended = "pass" THEN "insert" ELSE "done"]
           /\ tout' = [tout EXCEPT ![t] = IF ended = "pass" THEN None ELSE ended]
    /\ UNCHANGED <<now, epoch, nonces, handlerVars, restarted, treq>>

\* line 73
InsertStep(t) ==
    /\ pc[t] = "insert"
    /\ LET args == Args(treq[t].body)
           ended == InsertEnds(args[NONCE])
       IN  /\ nonces' = Insert(nonces, OauthTimestamp(args), args[NONCE])
           /\ CacheSize(nonces') <= MaxCache
           /\ pc' = [pc EXCEPT ![t] = IF ended = "pass" THEN "verify" ELSE "done"]
           /\ tout' = [tout EXCEPT ![t] = IF ended = "pass" THEN None ELSE ended]
    /\ UNCHANGED <<now, epoch, handlerVars, restarted, treq>>

\* lines 76-99
Verify(t) ==
    /\ pc[t] = "verify"
    /\ pc' = [pc EXCEPT ![t] = "done"]
    /\ tout' = [tout EXCEPT ![t] =
                    VerifySignature(Consumers, LaunchUrl(treq[t]), Args(treq[t].body))]
    /\ UNCHANGED <<now, epoch, nonces, handlerVars, restarted, treq>>

\* the caller has the result and may call again
Return(t) ==
    /\ pc[t] = "done"
    /\ pc' = [pc EXCEPT ![t] = "idle"]
    /\ treq' = [treq EXCEPT ![t] = NoRequest]
    /\ tout' = [tout EXCEPT ![t] = None]
    /\ UNCHANGED <<now, epoch, nonces, handlerVars, restarted>>

NextThreads ==
    \/ \E t \in Threads, r \in ThreadRequests : Call(t, r)
    \/ \E t \in Threads : Checks(t)
    \/ \E t \in Threads : InsertStep(t)
    \/ \E t \in Threads : Verify(t)
    \/ \E t \in Threads : Return(t)
    \/ Tick

SpecThreads == Init /\ [][NextThreads]_vars

----------------------------------------------------------------------------
(* What the claims speak of *)

\* the step is a handler call: its request, outcome and response are the primed ones
PostStep == now' = now /\ epoch' = epoch /\ ~restarted' /\ request' # NoRequest

OAuthFields == {CK, SIG, TS, NONCE}

\* all four oauth fields sent once, the timestamp a number
WellFormed(r) ==
    /\ \A k \in OAuthFields : Len(r.body[k]) = 1
    /\ FloatReadable(r.body[TS][1])

\* a valid request: well-formed, of a registered consumer, signed with its secret
ValidRequest(r) ==
    /\ WellFormed(r)
    /\ r.body[CK][1] \in DOMAIN Consumers
    /\ r.body[SIG][1] = SignatureOver(r, Consumers[r.body[CK][1]])

\* the (integer timestamp, nonce) pair of a well-formed request
PairOf(r) == <<IntOfFloat(r.body[TS][1]), r.body[NONCE][1]>>

\* the timestamp of r is fresh at time t in a process started at `start`
Fresh(r, t, start) ==
    /\ t - IntOfFloat(r.body[TS][1]) <= 30
    /\ IntOfFloat(r.body[TS][1]) >= start

----------------------------------------------------------------------------
(* C1 *)

\* the previous call of this process, of another request, recorded the only pair
\* the cache holds: the request of this step was not submitted to this process before
FirstSubmission ==
    /\ ~restarted
    /\ request # NoRequest
    /\ request' # request
    /\ outcome = OK
    /\ Cardinality(Pairs(nonces)) = 1

\* C1 as stated: the first submission of a valid request with a fresh timestamp
\* succeeds, whatever the nonce cache holds.
C1_FirstSubmissionSucceeds ==
    [][(PostStep /\ ValidRequest(request') /\ Fresh(request', now, epoch) /\ FirstSubmission)
        => outcome' = OK]_vars

\* C1 as amended: a valid request with a fresh timestamp whose (timestamp, nonce)
\* pair is not in the nonce cache succeeds, and that records the pair; one whose
\* pair is in the cache is rejected with 'oauth_nonce + oauth_timestamp already
\* used' and leaves the cache as it is; so the identical request, submitted again
\* to the same process after it succeeded, is rejected with that reason.
C1_SuccessOncePerPair ==
    [][(PostStep /\ ValidRequest(request') /\ Fresh(request', now, epoch)) =>
        /\ PairOf(request') \notin Pairs(nonces)
              => outcome' = OK /\ PairOf(request') \in Pairs(nonces')
        /\ PairOf(request') \in Pairs(nonces)
              => outcome' = NonceUsed /\ nonces' = nonces
        /\ (request' = request /\ outcome = OK /\ ~restarted)
              => outcome' = NonceUsed]_vars

\* a valid request was rejected as a replay
C1_Witness ==
    /\ request # NoRequest
    /\ ValidRequest(request)
    /\ outcome = NonceUsed
    /\ PairOf(request) \in Pairs(nonces)

----------------------------------------------------------------------------
(* C2 *)

\* C2: two concurrent calls of validate_launch_request with the same (timestamp,
\* nonce) pair never both return success.
C2_OneSuccessPerPair ==
    \A t1, t2 \in Threads :
        (t1 # t2 /\ tout[t1] = OK /\ tout[t2] = OK) => PairOf(treq[t1]) # PairOf(treq[t2])

----------------------------------------------------------------------------
(* C3 *)

\* the call gets as far as the timestamp check
ReachesTimestampCheck(r) ==
    /\ Len(r.body[CK]) = 1 /\ r.body[CK][1] \in DOMAIN Consumers
    /\ r.body[SIG] # <<>>
    /\ Len(r.body[TS]) = 1 /\ FloatReadable(r.body[TS][1])

\* C3: a request whose timestamp is more than 30 seconds in the past or more than
\* 30 seconds in the future is rejected with 'oauth_timestamp too old' (stated
\* here of the valid requests, which no other check refuses).
C3_OutsideWindowRejected ==
    [][(PostStep /\ ReachesTimestampCheck(request') /\ ValidRequest(request')
        /\ (\/ now - IntOfFloat(request'.body[TS][1]) > 30
            \/ IntOfFloat(request'.body[TS][1]) - now > 30))
        => outcome' = TimestampTooOld]_vars

----------------------------------------------------------------------------
(* C4 *)

\* C4: a request accepted before a restart is not accepted when it is submitted
\* again after the restart.
C4_NoReplayAfterRestart ==
    [][(PostStep /\ restarted /\ request' = request /\ outcome = OK) => outcome' # OK]_vars

----------------------------------------------------------------------------
(* C5 *)

\* C5: a request whose oauth_consumer_key is sent but is no key of the registry is
\* rejected with 'oauth_consumer_key not known', and the nonce cache stays as it is.
C5_UnknownConsumerRejected ==
    [][(PostStep /\ request'.body[CK] # <<>>
        /\ ~(Len(request'.body[CK]) = 1 /\ request'.body[CK][1] \in DOMAIN Consumers))
        => (outcome' = ConsumerKeyUnknown /\ nonces' = nonces)]_vars

----------------------------------------------------------------------------
(* C6 *)

\* a body parameter other than oauth_signature has another value than the one the
\* supplied signature was computed over
DiffersFromSigned(r) ==
    LET signed == r.body[SIG][1].base.params
    IN  \E k \in DOMAIN r.body \ {SIG} :
            IF Escape(k) \in DOMAIN signed
            THEN r.body[k] = <<>>
                 \/ signed[Escape(k)] # BagOf([i \in DOMAIN r.body[k] |-> Escape(r.body[k][i])])
            ELSE r.body[k] # <<>>

\* C6: a request that passes the consumer, timestamp and nonce checks and carries
\* a parameter value other than the signed one is rejected with 'Invalid
\* oauth_signature'.
C6_TamperingRejected ==
    [][(PostStep /\ outcome' \in {OK, SignatureInvalid} /\ DiffersFromSigned(request'))
        => outcome' = SignatureInvalid]_vars

----------------------------------------------------------------------------
(* C7 *)

\* C7: every call ends in success or in one of the five rejections.
C7_SuccessOrRejection == outcome \in {None, OK} \cup Rejections

----------------------------------------------------------------------------
(* C8 *)

\* C8: a request whose oauth_timestamp is sent but is not a number is rejected
\* with 'oauth_timestamp too old', and the nonce cache stays as it is.
C8_UnreadableTimestampRejected ==
    [][(PostStep
        /\ Len(request'.body[CK]) = 1 /\ request'.body[CK][1] \in DOMAIN Consumers
        /\ request'.body[SIG] # <<>>
        /\ Len(request'.body[TS]) = 1 /\ ~FloatReadable(request'.body[TS][1]))
        => (outcome' = TimestampTooOld /\ nonces' = nonces)]_vars

----------------------------------------------------------------------------
(* C9 *)

\* the address authenticate reads
EmailOf(r) == GetBodyArgument(r.body, EMAIL)

\* name is the text of address before its first '@'
IsLocalPart(name, address) ==
    /\ \A i \in DOMAIN name : name[i] # "@"
    /\ Len(name) <= Len(address)
    /\ SubSeq(address, 1, Len(name)) = name
    /\ Len(name) < Len(address) => address[Len(name) + 1] = "@"

\* C9: authenticate returns an identity only for a request validate_launch_request
\* succeeded on, its login name is the local part of
\* lis_person_contact_email_primary (alice@example.edu gives alice), and a
\* rejected request gets no identity.
C9_IdentityIsLocalPart ==
    /\ identity # NoIdentity =>
          /\ outcome = OK
          /\ IsLocalPart(identity[1].name, EmailOf(request))
          /\ EmailOf(request) = Alice => identity[1].name = <<"alice">>
    /\ outcome # OK => identity = NoIdentity

\* the launch of alice@example.edu was authenticated
C9_Witness ==
    /\ identity # NoIdentity
    /\ outcome = OK
    /\ EmailOf(request) = Alice
    /\ identity[1].name = <<"alice">>

----------------------------------------------------------------------------
(* C10 *)

\* C10: for a request without lis_person_contact_email_primary authenticate
\* returns no identity, nobody is logged in and the handler sends no redirect.
C10_NoEmailNoLogin ==
    (request # NoRequest /\ request.body[EMAIL] = <<>>) =>
        /\ identity = NoIdentity
        /\ response.login = NoIdentity
        /\ response.status # 302

\* an otherwise valid launch without the address passed validation and failed
C10_Witness ==
    /\ request # NoRequest
    /\ request.body[EMAIL] = <<>>
    /\ ValidRequest(request)
    /\ outcome = OK
    /\ identity = NoIdentity
    /\ response.status = 400

----------------------------------------------------------------------------
(* C11 *)

\* the parameters a request sends whose key does not start with oauth_
NonOauthSent(r) == {k \in DOMAIN r.body : r.body[k] # <<>> /\ k[1] # "oauth_"}

\* C11: the auth_state of a returned identity holds every parameter of the request
\* whose key does not start with oauth_, with its value, and no key that starts
\* with oauth_.
C11_AuthStateIsNonOauth ==
    identity # NoIdentity =>
        /\ DOMAIN identity[1].auth_state = NonOauthSent(request)
        /\ \A k \in NonOauthSent(request) : identity[1].auth_state[k] = request.body[k]
        /\ \A k \in DOMAIN identity[1].auth_state : k[1] # "oauth_"

\* a launch with oauth_version, a repeated context_id and custom_oauth_token was
\* authenticated: the state keeps the last two only
C11_Witness ==
    /\ identity # NoIdentity
    /\ request.body[CK] # <<>>
    /\ OauthVersion \in DOMAIN request.body /\ request.body[OauthVersion] # <<>>
    /\ Len(request.body[ContextId]) = 2
    /\ DOMAIN identity[1].auth_state = {EMAIL, ContextId, CustomOauth}
    /\ identity[1].auth_state[ContextId] = request.body[ContextId]

----------------------------------------------------------------------------
(* C12 *)

\* C12: the handler redirects only for a request authenticate returned an identity
\* for (validation succeeded), and then to custom_next when the request sends it
\* and to the default URL otherwise; a request validation rejected is answered
\* with a 401 that carries the reason, not with a redirect.
C12_RedirectAfterAuthentication ==
    request # NoRequest =>
        /\ response.status = 302 => (outcome = OK /\ identity # NoIdentity)
        /\ identity # NoIdentity =>
              /\ response.status = 302
              /\ response.detail =
                    IF request.body[NEXT] # <<>>
                    THEN Strip(request.body[NEXT][Len(request.body[NEXT])])
                    ELSE <<"/hub/home">>
        /\ outcome \in Rejections =>
              (response.status = 401 /\ response.detail = <<outcome>>)

\* an authenticated launch was redirected to its custom_next
C12_Witness ==
    /\ outcome = OK
    /\ identity # NoIdentity
    /\ request.body[NEXT] = <<<<"/user/alice">>>>
    /\ response.status = 302
    /\ response.detail = <<"/user/alice">>

----------------------------------------------------------------------------
(* C13 *)

\* the rejection of the first check, in the stated order, that request r fails
\* with the nonce cache `cache` at time t in a process started at `start`; OK when
\* it fails none
FirstFailingCheck(r, cache, t, start) ==
    LET b == r.body
    IN  IF b[CK] = <<>> THEN ConsumerKeyMissing
        ELSE IF ~(Len(b[CK]) = 1 /\ b[CK][1] \in DOMAIN Consumers) THEN ConsumerKeyUnknown
        ELSE IF b[SIG] = <<>> THEN SignatureMissing
        ELSE IF b[TS] = <<>> THEN TimestampMissing
        ELSE IF ~(Len(b[TS]) = 1 /\ FloatReadable(b[TS][1]) /\ Fresh(r, t, start))
             THEN TimestampTooOld
        ELSE IF b[NONCE] = <<>> THEN NonceMissing
        ELSE IF \E i \in DOMAIN b[NONCE] : <<IntOfFloat(b[TS][1]), b[NONCE][i]>> \in Pairs(cache)
             THEN NonceUsed
        ELSE IF ~(Len(b[SIG]) = 1 /\ b[SIG][1] = SignatureOver(r, Consumers[b[CK][1]]))
             THEN SignatureInvalid
        ELSE OK

\* C13: the outcome of every call is the rejection of the first check that fails,
\* in the order consumer key present, registered, signature present, timestamp
\* present, fresh, nonce present, unused, signature matching; success when none
\* fails.
C13_FirstFailingCheckDecides ==
    [][PostStep => outcome' = FirstFailingCheck(request', nonces, now, epoch)]_vars

----------------------------------------------------------------------------
(* C14 *)

\* C14: a request that reaches the timestamp check passes it exactly when
\* now - timestamp <= 30 and timestamp >= PROCESS_START_TIME, the timestamp cut to
\* whole seconds: 30 seconds old passes, 31 seconds old is refused, one second
\* before the process start is refused whatever its age.
C14_TimestampWindow ==
    [][(PostStep /\ ReachesTimestampCheck(request')) =>
        LET ts == IntOfFloat(request'.body[TS][1])
        IN  /\ outcome' # TimestampTooOld <=> (now - ts <= 30 /\ ts >= epoch)
            /\ now - ts = 30 /\ ts >= epoch => outcome' # TimestampTooOld
            /\ now - ts = 31 => outcome' = TimestampTooOld
            /\ ts = epoch - 1 => outcome' = TimestampTooOld]_vars

\* a timestamp one second old was refused: it lies one second before the start of
\* the process that was asked
C14_Witness ==
    /\ ~restarted
    /\ request # NoRequest
    /\ now = 1
    /\ epoch = 1
    /\ request.body[TS] = <<<<"0">>>>
    /\ outcome = TimestampTooOld

----------------------------------------------------------------------------
(* C15 *)

\* the call passes the consumer and timestamp checks and finds a nonce: it reaches
\* the membership test of the nonce cache
ReachesNonceCheck(r, t, start) ==
    /\ ReachesTimestampCheck(r)
    /\ ~TooOld(IntOfFloat(r.body[TS][1]), t, start)
    /\ Len(r.body[NONCE]) = 1

\* C15: the pair is recorded before the signature is verified.  A call that ends
\* with 'Invalid oauth_signature' leaves its (timestamp, nonce) pair in the nonce
\* cache; a call that reaches the nonce check with a pair the cache of this process
\* holds is rejected with 'oauth_nonce + oauth_timestamp already used' whatever its
\* signature, in particular the call that follows one rejected for its signature
\* and carries the same pair.
C15_RecordedBeforeSignature ==
    [][(PostStep /\ ReachesNonceCheck(request', now, epoch)) =>
        /\ outcome' = SignatureInvalid => PairOf(request') \in Pairs(nonces')
        /\ PairOf(request') \in Pairs(nonces) => outcome' = NonceUsed
        /\ (/\ ~restarted
            /\ outcome = SignatureInvalid
            /\ PairOf(request) = PairOf(request'))
              => outcome' = NonceUsed]_vars

\* a call rejected for its signature recorded the only pair the cache holds
C15_Witness ==
    /\ ~restarted
    /\ request # NoRequest
    /\ outcome = SignatureInvalid
    /\ Pairs(nonces) = {PairOf(request)}

----------------------------------------------------------------------------
(* C16 *)

\* the rejections raised before the pair is recorded
EarlyRejections == MissingField \cup {ConsumerKeyUnknown, TimestampTooOld, NonceUsed}

\* C16: a call rejected for a missing field, an unknown consumer, a stale
\* timestamp or a replayed nonce leaves the nonce cache as it was; a call rejected
\* as a replay found its pair in the cache and did not record it again; a call
\* adds at most the one pair of its request to the cache, and only when the cache
\* did not hold it.
C16_RejectionLeavesCache ==
    [][PostStep =>
        /\ outcome' \in EarlyRejections => nonces' = nonces
        /\ outcome' = NonceUsed =>
              /\ PairOf(request') \in Pairs(nonces)
              /\ Pairs(nonces') = Pairs(nonces)
        /\ Pairs(nonces') # Pairs(nonces) =>
              /\ PairOf(request') \notin Pairs(nonces)
              /\ Pairs(nonces') = Pairs(nonces) \cup {PairOf(request')}]_vars

\* with one pair recorded, a request carrying it was rejected as a replay and the
\* cache still holds that one pair
C16_Witness ==
    /\ ~restarted
    /\ request # NoRequest
    /\ outcome = NonceUsed
    /\ WellFormed(request)
    /\ Pairs(nonces) = {PairOf(request)}

----------------------------------------------------------------------------
(* C17 *)

\* C17: the nonce cache of a process starts empty and only grows.  It is empty
\* at the start and after a restart; no call and no passing of time removes a
\* recorded pair; and every call that reaches the nonce check with a recorded pair
\* is rejected with 'oauth_nonce + oauth_timestamp already used'.
C17_CacheOnlyGrows ==
    /\ nonces = EmptyCache
    /\ [][/\ restarted' => nonces' = EmptyCache
          /\ ~restarted' =>
                /\ Pairs(nonces) \subseteq Pairs(nonces')
                /\ DOMAIN nonces \subseteq DOMAIN nonces'
          /\ (/\ PostStep
              /\ ReachesNonceCheck(request', now, epoch)
              /\ PairOf(request') \in Pairs(nonces))
                => (outcome' = NonceUsed /\ nonces' = nonces)]_vars

\* the cache has grown to two pairs and a valid request carrying one of them was
\* rejected as a replay
C17_Witness ==
    /\ ~restarted
    /\ Cardinality(Pairs(nonces)) = 2
    /\ request # NoRequest
    /\ ValidRequest(request)
    /\ outcome = NonceUsed
    /\ PairOf(request) \in Pairs(nonces)

----------------------------------------------------------------------------
(* C18 *)

\* a call on an instance whose registry is `consumers` reaches the membership test
\* of the nonce cache
ReachesNonceCheckOf(consumers, r, t, start) ==
    /\ Len(r.body[CK]) = 1 /\ r.body[CK][1] \in DOMAIN consumers
    /\ r.body[SIG] # <<>>
    /\ Len(r.body[TS]) = 1 /\ FloatReadable(r.body[TS][1])
    /\ ~TooOld(IntOfFloat(r.body[TS][1]), t, start)
    /\ Len(r.body[NONCE]) = 1

\* the step is a call of `validator` on the primed request: the instance
\* authenticate makes for a request, or the standing one
CalledThrough(validator) ==
    \/ validator = LTILaunchValidator(Consumers) /\ Post(request')
    \/ validator = StandingValidator /\ ValidateWith(StandingValidator, request')

\* C18: the nonce cache is shared by all validator instances of the process.  A
\* call through any instance that gets past the nonce check leaves its pair in the
\* one cache, and a call through any instance, the fresh one authenticate makes for
\* a request included, that reaches the nonce check with a pair recorded there is
\* rejected with 'oauth_nonce + oauth_timestamp already used'.
C18_CacheSharedByInstances ==
    [][\A validator \in {LTILaunchValidator(Consumers), StandingValidator} :
        (/\ request' # NoRequest
         /\ CalledThrough(validator)
         /\ ReachesNonceCheckOf(validator.consumers, request', now, epoch)) =>
            /\ PairOf(request') \in Pairs(nonces')
            /\ PairOf(request') \in Pairs(nonces) => outcome' = NonceUsed
            /\ PairOf(request') \notin Pairs(nonces) => outcome' \in {OK, SignatureInvalid}]_vars

\* the handler accepted a launch through the instance authenticate made for it,
\* which recorded the only pair of the cache; the standing instance was then
\* called with the other consumer's launch of the same pair and rejected it as a
\* replay, sending no response
C18_Witness ==
    /\ response.status = 302
    /\ request # NoRequest
    /\ request.body[CK] = <<Key2>>
    /\ ValidRequest(request)
    /\ outcome = NonceUsed
    /\ Pairs(nonces) = {PairOf(request)}

----------------------------------------------------------------------------
(* C19 *)

\* C19: nonce uniqueness is keyed on the pair (integer timestamp, nonce) alone.  A
\* call that reaches the nonce check is rejected as a replay exactly when the
\* cache holds its pair, whichever consumer's request recorded it: the request of
\* another registered consumer that follows with the same pair is rejected with
\* 'oauth_nonce + oauth_timestamp already used'; a request whose nonce is recorded
\* under another integer timestamp only is not rejected as a replay.
C19_KeyedByPairAlone ==
    [][(PostStep /\ ReachesNonceCheck(request', now, epoch)) =>
        /\ outcome' = NonceUsed <=> PairOf(request') \in Pairs(nonces)
        /\ (/\ ~restarted
            /\ outcome \in {OK, SignatureInvalid, NonceUsed}
            /\ request.body[CK] # request'.body[CK]
            /\ PairOf(request) = PairOf(request'))
              => outcome' = NonceUsed
        /\ (/\ \E p \in Pairs(nonces) : p[2] = PairOf(request')[2]
            /\ PairOf(request') \notin Pairs(nonces))
              => outcome' # NonceUsed]_vars

\* a valid request was accepted whose nonce the cache holds under two integer
\* timestamps: the other one was recorded before
C19_Witness ==
    /\ ~restarted
    /\ request # NoRequest
    /\ ValidRequest(request)
    /\ outcome = OK
    /\ Cardinality(Pairs(nonces)) = 2
    /\ \E p \in Pairs(nonces) : p # PairOf(request) /\ p[2] = PairOf(request)[2]

====
